---- MODULE Spec2Model ----
(***************************************************************************)
(* Chemist 4 U (app/src/chemist4u.py): the cart file, the receipts in the  *)
(* output folder, and the interactive workflow main_menu / place_order /   *)
(* display_cart / delete_from_cart / bill_process.                          *)
(*                                                                         *)
(* A text is a sequence of one-character strings, so that strip(), lower() *)
(* and the "in" substring test are computed.  A CSV cell, and a line typed *)
(* at a prompt, is a Cell: what int() and float() make of it.  Money is    *)
(* held in thousandths of a rupee ("mills") in memory and in hundredths    *)
(* (what "%.2f" prints) on file.                                            *)
(***************************************************************************)
EXTENDS Integers, Sequences, FiniteSets, TLC

\* ------------------------------------------------------------------ bounds
\* Largest quantity one cart entry is allowed to reach in the model.
MaxQty == 2
\* Number of distinct tracking IDs generate_tracking_id can return.
NumTrackingIds == 1

\* ------------------------------------------------------------------- texts
LowerChar(c) ==
  CASE c = "B" -> "b" [] c = "F" -> "f" [] c = "E" -> "e" [] c = "V" -> "v"
    [] c = "R" -> "r" [] c = "I" -> "i" [] c = "A" -> "a" [] c = "C" -> "c"
    [] c = "K" -> "k" [] OTHER -> c

\* str.lower()
Lower(s) == [i \in 1..Len(s) |-> LowerChar(s[i])]

RECURSIVE LStrip(_)
LStrip(s) == IF s # <<>> /\ Head(s) = " " THEN LStrip(Tail(s)) ELSE s

RECURSIVE RStrip(_)
RStrip(s) ==
  IF s # <<>> /\ s[Len(s)] = " " THEN RStrip(SubSeq(s, 1, Len(s) - 1)) ELSE s

\* str.strip()
Strip(s) == RStrip(LStrip(s))

\* a in b, for two texts
Contains(a, b) ==
  \E i \in 1..(Len(b) + 1) :
    i + Len(a) - 1 <= Len(b) /\ SubSeq(b, i, i + Len(a) - 1) = a

\* ------------------------------------------------------------------- cells
IntCell(n) == [kind |-> "int", val |-> n]
DecCell(c) == [kind |-> "dec", val |-> c]
TextCell == [kind |-> "text", val |-> 0]
EmptyCell == [kind |-> "empty", val |-> 0]

\* int(cell): succeeds on a decimal integer only
ParseInt(cell) ==
  IF cell.kind = "int" THEN [ok |-> TRUE, val |-> cell.val]
  ELSE [ok |-> FALSE, val |-> 0]

\* float(cell), in mills
ParseFloat(cell) ==
  CASE cell.kind = "int" -> [ok |-> TRUE, val |-> cell.val * 1000]
    [] cell.kind = "dec" -> [ok |-> TRUE, val |-> cell.val * 10]
    [] OTHER -> [ok |-> FALSE, val |-> 0]

\* f"{x:.2f}" of a non-negative amount of mills, in hundredths
Format2f(mills) == (mills + 5) \div 10

\* class Medicine: __init__ with its lenient parsing
Medicine(id_, name, intensity, disease, cost) ==
  [id |-> IF ParseInt(id_).ok THEN ParseInt(id_).val ELSE 0,
   name |-> name, intensity |-> intensity, disease |-> disease,
   cost |-> IF ParseFloat(cost).ok THEN ParseFloat(cost).val ELSE 0,
   quantity |-> 1]

\* ------------------------------------------------------------ store, cart
Fever == <<"F", "e", "v", "e", "r">>
Infection == <<"I", "n", "f", "e", "c", "t", "i", "o", "n">>

\* store.csv as ensure_folders_and_files seeds it (rows 101 and 103)
StoreFile ==
  << [id |-> IntCell(101), name |-> "Paracetamol", intensity |-> "500mg",
      disease |-> Fever, cost |-> DecCell(2000)],
     [id |-> IntCell(103), name |-> "Azithromycin", intensity |-> "250mg",
      disease |-> Infection, cost |-> DecCell(8500)] >>

CartHeader == <<"id", "name", "intensity", "disease", "cost", "quantity">>

\* the cart file as ensure_folders_and_files / clear_cart write it
clear_cart == [header |-> CartHeader, rows |-> <<>>]

RECURSIVE load_rows(_)
load_rows(rows) ==
  IF rows = <<>> THEN <<>>
  ELSE LET row == Head(rows) IN
       IF row.id.kind = "empty" THEN load_rows(Tail(rows))
       ELSE <<Medicine(row.id, row.name, row.intensity, row.disease, row.cost)>>
            \o load_rows(Tail(rows))

load_store == load_rows(StoreFile)

RECURSIVE read_rows(_)
read_rows(rows) ==
  IF rows = <<>> THEN <<>>
  ELSE LET row == Head(rows)
           m == Medicine(row.id, row.name, row.intensity, row.disease, row.cost)
           q == IF ParseInt(row.quantity).ok THEN ParseInt(row.quantity).val ELSE 1
       IN IF row.id.kind = "empty" THEN read_rows(Tail(rows))
          ELSE <<[m EXCEPT !.quantity = q]>> \o read_rows(Tail(rows))

read_cart(file) == read_rows(file.rows)

\* write_cart_from_items without the quantity column filled in
write_cart_from_items_noqty(its) ==
  [header |-> CartHeader,
   rows |-> [i \in 1..Len(its) |->
              [id |-> IntCell(its[i].id), name |-> its[i].name,
               intensity |-> its[i].intensity, disease |-> its[i].disease,
               cost |-> DecCell(Format2f(its[i].cost)),
               quantity |-> EmptyCell]]]

write_cart_from_items(its) ==
  [header |-> CartHeader,
   rows |-> [i \in 1..Len(its) |->
              [id |-> IntCell(its[i].id), name |-> its[i].name,
               intensity |-> its[i].intensity, disease |-> its[i].disease,
               cost |-> DecCell(Format2f(its[i].cost)),
               quantity |-> IntCell(its[i].quantity)]]]

\* index of the first item with this id, 0 when there is none
RECURSIVE IndexOfFrom(_, _, _)
IndexOfFrom(its, id, i) ==
  IF i > Len(its) THEN 0
  ELSE IF its[i].id = id THEN i ELSE IndexOfFrom(its, id, i + 1)

IndexOf(its, id) == IndexOfFrom(its, id, 1)

\* append_to_cart without the scan for an entry of the same ID
append_to_cart_nomerge(file, med, q) ==
  IF q <= 0 THEN file
  ELSE write_cart_from_items(Append(read_cart(file), [med EXCEPT !.quantity = q]))

\* append_to_cart without "med.quantity = qty" for a new entry
append_to_cart_keepqty(file, med, q) ==
  IF q <= 0 THEN file
  ELSE LET its == read_cart(file)
           i == IndexOf(its, med.id)
       IN IF i # 0
          THEN write_cart_from_items([its EXCEPT ![i].quantity = @ + q])
          ELSE write_cart_from_items(Append(its, med))

\* append_to_cart without its "if qty <= 0: return"
append_to_cart_noguard(file, med, q) ==
  LET its == read_cart(file)
      i == IndexOf(its, med.id)
  IN IF i # 0
     THEN write_cart_from_items([its EXCEPT ![i].quantity = @ + q])
     ELSE write_cart_from_items(Append(its, [med EXCEPT !.quantity = q]))

\* a merge that re-appends the merged entry at the end of the cart
append_to_cart_movelast(file, med, q) ==
  IF q <= 0 THEN file
  ELSE LET its == read_cart(file)
           i == IndexOf(its, med.id)
       IN IF i # 0
          THEN write_cart_from_items(
                 SelectSeq(its, LAMBDA m : m.id # med.id)
                 \o <<[its[i] EXCEPT !.quantity = @ + q]>>)
          ELSE write_cart_from_items(Append(its, [med EXCEPT !.quantity = q]))

append_to_cart(file, med, q) ==
  IF q <= 0 THEN file
  ELSE LET its == read_cart(file)
           i == IndexOf(its, med.id)
       IN IF i # 0
          THEN write_cart_from_items([its EXCEPT ![i].quantity = @ + q])
          ELSE write_cart_from_items(Append(its, [med EXCEPT !.quantity = q]))

find_by_disease(disease) ==
  SelectSeq(load_store,
            LAMBDA m : Lower(Strip(m.disease)) = Lower(Strip(disease)))

\* the approximate matches place_order prints
approx_matches(disease) ==
  SelectSeq(load_store,
            LAMBDA m : Contains(Lower(Strip(disease)), Lower(Strip(m.disease))))

\* remove the item at index i (list.remove of the object found there)
RemoveAt(its, i) == SubSeq(its, 1, i - 1) \o SubSeq(its, i + 1, Len(its))

\* delete_from_cart with "qty_del > found.quantity"
delete_quantity_strict(its, i, qty_to_del) ==
  IF qty_to_del > its[i].quantity THEN RemoveAt(its, i)
  ELSE [its EXCEPT ![i].quantity = @ - qty_to_del]

\* delete_from_cart that removes the entry whatever the amount
delete_quantity_whole(its, i, qty_to_del) == RemoveAt(its, i)

\* delete_from_cart that leaves the quantity as it is on a partial deletion
delete_quantity_keep(its, i, qty_to_del) ==
  IF qty_to_del >= its[i].quantity THEN RemoveAt(its, i)
  ELSE its

\* lines 274-279 of delete_from_cart: the in-memory cart after the deletion
delete_quantity(its, i, qty_to_del) ==
  IF qty_to_del >= its[i].quantity THEN RemoveAt(its, i)
  ELSE [its EXCEPT ![i].quantity = @ - qty_to_del]

\* the total without the quantities
RECURSIVE cart_total_noqty(_)
cart_total_noqty(its) ==
  IF its = <<>> THEN 0
  ELSE Head(its).cost + cart_total_noqty(Tail(its))

\* total = sum(it.cost * it.quantity for it in items), in mills
RECURSIVE cart_total(_)
cart_total(its) ==
  IF its = <<>> THEN 0
  ELSE Head(its).cost * Head(its).quantity + cart_total(Tail(its))

\* the text save_bill writes to bill_<tracking_id>.txt
bill_text(customer, its, total, tracking_id) ==
  [customer |-> customer,
   lines |-> [i \in 1..Len(its) |->
               [name |-> its[i].name, quantity |-> its[i].quantity,
                rate |-> Format2f(its[i].cost),
                subtotal |-> Format2f(its[i].cost * its[i].quantity)]],
   total |-> Format2f(total),
   payment |-> "Cash on Delivery",
   tracking_id |-> tracking_id]

\* the output folder after save_bill: open(filepath, "w") creates or overwrites
save_bill(folder, customer, its, total, tracking_id) ==
  [t \in (DOMAIN folder) \cup {tracking_id} |->
     IF t = tracking_id THEN bill_text(customer, its, total, tracking_id)
     ELSE folder[t]]

\* ------------------------------------------------------------------ inputs
TrackingIds == 1..NumTrackingIds
Customers == {[name |-> "Asha", address |-> "Pune", phone |-> "020"]}
MenuChoices == {"1", "2", "3", "4", "5", "9"}
Back == <<"B", "a", "c", "k">>
TypedDiseases ==
  {Back, <<"F", "E", "V", "E", "R", " ">>,
   <<"i", "n", "f", "e", "c", "t", "i", "o", "n">>,
   <<"f", "e", "v">>, <<"c", "o", "l", "d">>}
TypedIds == {IntCell(0), IntCell(101), IntCell(103), IntCell(999), TextCell}
TypedQuantities == {IntCell(n) : n \in (0 - 1)..MaxQty} \cup {TextCell}
TypedAmounts == {IntCell(n) : n \in (0 - MaxQty)..(MaxQty + 1)} \cup {TextCell}

\* ------------------------------------------------------------------- state
VARIABLES
  pc,         \* the prompt or call the program is at
  caller,     \* who called display_cart / delete_from_cart / bill_process /
              \* append_to_cart: "main", "order", or "api" (a direct call)
  cartFile,   \* data/cart.csv
  receipts,   \* output/: tracking ID -> text of bill_<tracking ID>.txt
  tracking_id,\* bill_process: the ID generate_tracking_id returned, or 0
  items,      \* local of delete_from_cart and of bill_process
  found,      \* delete_from_cart: index in items of the entry found, or 0
  id_to_del,  \* delete_from_cart: the ID last typed
  qty_del,    \* delete_from_cart: the amount typed
  results,    \* place_order: the exact matches, up to the quantity prompt
  approx,     \* place_order: the approximate matches printed
  chosen,     \* place_order / append_to_cart: <<med>>, or <<>> for None
  qty         \* place_order / append_to_cart: the quantity

vars ==
  <<pc, caller, cartFile, receipts, tracking_id, items, found, id_to_del, qty_del,
    results, approx, chosen, qty>>

files == <<cartFile, receipts>>
delete_locals == <<items, found, id_to_del, qty_del>>
order_locals == <<results, approx, chosen, qty>>

\* after ensure_folders_and_files on a fresh data folder, at the main menu
Init ==
  /\ pc = "menu"
  /\ caller = "main"
  /\ cartFile = clear_cart
  /\ receipts = <<>>
  /\ tracking_id = 0
  /\ items = <<>>
  /\ found = 0
  /\ id_to_del = 0
  /\ qty_del = 0
  /\ results = <<>>
  /\ approx = <<>>
  /\ chosen = <<>>
  /\ qty = 0

NoDeleteLocals == items' = <<>> /\ found' = 0 /\ id_to_del' = 0 /\ qty_del' = 0
NoOrderLocals == results' = <<>> /\ approx' = <<>> /\ chosen' = <<>> /\ qty' = 0

\* quantity the cart holds of this product ID (0 when absent)
QuantityOf(its, id) == IF IndexOf(its, id) = 0 THEN 0 ELSE its[IndexOf(its, id)].quantity

\* where delete_from_cart returns to: place_order asks "After cart changes",
\* main_menu asks "Bill now?" only if read_cart() is not empty
AfterDelete(who, file) ==
  CASE who = "order" -> "post"
    [] who = "main" -> IF read_cart(file) # <<>> THEN "billnow" ELSE "menu"
    [] OTHER -> "menu"

\* display_cart(return_choice=True) on entry: an empty cart returns "m", which
\* both callers answer by going back to the main menu
DisplayCart(who) ==
  IF read_cart(cartFile) = <<>>
  THEN pc' = "menu" /\ caller' = "main"
  ELSE pc' = "cart" /\ caller' = who

\* ----------------------------------------------------------------- actions
\* main_menu: one pass of its loop
main_menu(choice) ==
  /\ pc = "menu"
  /\ CASE choice = "2" -> pc' = "search" /\ caller' = "main"
       [] choice = "4" -> DisplayCart("main")
       [] choice = "5" -> pc' = "exit" /\ caller' = "main"
       [] OTHER -> pc' = "menu" /\ caller' = "main"
  /\ UNCHANGED <<files, tracking_id, delete_locals, order_locals>>

\* place_order: the disease prompt, find_by_disease and the fallback
place_order_search(typed) ==
  /\ pc = "search"
  /\ LET disease == Strip(typed) IN
     IF Lower(disease) = Lower(Back)
     THEN pc' = "menu" /\ NoOrderLocals
     ELSE IF find_by_disease(disease) = <<>>
          THEN /\ pc' = "approx"
               /\ approx' = approx_matches(disease)
               /\ UNCHANGED <<results, chosen, qty>>
          ELSE /\ pc' = "id"
               /\ results' = find_by_disease(disease)
               /\ UNCHANGED <<approx, chosen, qty>>
  /\ UNCHANGED <<caller, files, tracking_id, delete_locals>>

\* place_order offering the approximate matches at the ID prompt
place_order_approx_offer ==
  /\ pc = "approx"
  /\ IF approx = <<>>
     THEN pc' = "search" /\ NoOrderLocals
     ELSE pc' = "id" /\ results' = approx /\ approx' = <<>>
          /\ UNCHANGED <<chosen, qty>>
  /\ UNCHANGED <<caller, files, tracking_id, delete_locals>>

\* place_order: "Press Enter to continue..." after the approximate matches
place_order_approx ==
  /\ pc = "approx"
  /\ pc' = "search"
  /\ NoOrderLocals
  /\ UNCHANGED <<caller, files, tracking_id, delete_locals>>

\* place_order taking an ID it found nowhere as a new product, with the
\* details of the first result
place_order_id_unchecked(typed) ==
  /\ pc = "id"
  /\ LET id_choice == ParseInt(typed)
         inResults == IndexOf(results, id_choice.val)
         inStore == IndexOf(load_store, id_choice.val)
     IN IF ~id_choice.ok \/ id_choice.val = 0
        THEN pc' = "search" /\ NoOrderLocals
        ELSE IF inResults # 0
        THEN pc' = "qty" /\ chosen' = <<results[inResults]>>
             /\ UNCHANGED <<results, approx, qty>>
        ELSE IF inStore # 0
        THEN pc' = "qty" /\ chosen' = <<load_store[inStore]>>
             /\ UNCHANGED <<results, approx, qty>>
        ELSE pc' = "qty" /\ chosen' = <<[results[1] EXCEPT !.id = id_choice.val]>>
             /\ UNCHANGED <<results, approx, qty>>
  /\ UNCHANGED <<caller, files, tracking_id, delete_locals>>

\* place_order: the ID prompt and the lookup of the chosen medicine
place_order_id(typed) ==
  /\ pc = "id"
  /\ LET id_choice == ParseInt(typed)
         inResults == IndexOf(results, id_choice.val)
         inStore == IndexOf(load_store, id_choice.val)
     IN IF ~id_choice.ok \/ id_choice.val = 0
        THEN pc' = "search" /\ NoOrderLocals
        ELSE IF inResults # 0
        THEN pc' = "qty" /\ chosen' = <<results[inResults]>>
             /\ UNCHANGED <<results, approx, qty>>
        ELSE IF inStore # 0
        THEN pc' = "qty" /\ chosen' = <<load_store[inStore]>>
             /\ UNCHANGED <<results, approx, qty>>
        ELSE pc' = "next" /\ NoOrderLocals
  /\ UNCHANGED <<caller, files, tracking_id, delete_locals>>

\* place_order: the quantity prompt, up to the call of append_to_cart
place_order_qty(typed) ==
  /\ pc = "qty"
  /\ LET n == ParseInt(typed) IN
     /\ n.ok => QuantityOf(read_cart(cartFile), chosen[1].id) + n.val <= MaxQty
     /\ IF ~n.ok \/ n.val <= 0
        THEN pc' = "search" /\ caller' = caller /\ NoOrderLocals
        ELSE pc' = "append" /\ caller' = "order" /\ qty' = n.val
             /\ results' = <<>> /\ UNCHANGED <<approx, chosen>>
  /\ UNCHANGED <<files, tracking_id, delete_locals>>

\* append_to_cart(med, qty), called with med = chosen[1]
append_to_cart_call ==
  /\ pc = "append"
  /\ cartFile' = append_to_cart(cartFile, chosen[1], qty)
  /\ IF caller = "order"
     THEN pc' = "next" /\ UNCHANGED <<chosen, qty>>
     ELSE pc' = "menu" /\ chosen' = <<>> /\ qty' = 0
  /\ caller' = "main"
  /\ UNCHANGED <<receipts, tracking_id, delete_locals, results, approx>>

\* place_order's menu with a clear_cart() on the way back to the main menu
place_order_next_clears(next_choice) ==
  /\ pc = "next"
  /\ CASE next_choice = "b" ->
            /\ IF read_cart(cartFile) # <<>>
               THEN pc' = "bill" /\ caller' = "order"
               ELSE pc' = "menu" /\ caller' = "main"
            /\ NoOrderLocals /\ UNCHANGED cartFile
       [] next_choice = "c" ->
            DisplayCart("order") /\ NoOrderLocals /\ UNCHANGED cartFile
       [] next_choice = "m" ->
            /\ pc' = "menu" /\ caller' = "main" /\ NoOrderLocals
            /\ cartFile' = clear_cart
       [] OTHER -> UNCHANGED <<pc, caller, order_locals, cartFile>>
  /\ UNCHANGED <<receipts, tracking_id, delete_locals>>

\* place_order: "Choose B / C / M"
place_order_next(next_choice) ==
  /\ pc = "next"
  /\ CASE next_choice = "b" ->
            /\ IF read_cart(cartFile) # <<>>
               THEN pc' = "bill" /\ caller' = "order"
               ELSE pc' = "menu" /\ caller' = "main"
            /\ NoOrderLocals
       [] next_choice = "c" -> DisplayCart("order") /\ NoOrderLocals
       [] next_choice = "m" -> pc' = "menu" /\ caller' = "main" /\ NoOrderLocals
       [] OTHER -> UNCHANGED <<pc, caller, order_locals>>
  /\ UNCHANGED <<files, tracking_id, delete_locals>>

\* display_cart whose "M" answer empties the cart on the way to the main menu
display_cart_clears(ch) ==
  /\ pc = "cart"
  /\ CASE ch = "b" ->
            /\ IF read_cart(cartFile) # <<>>
               THEN pc' = "bill" /\ caller' = caller
               ELSE pc' = "menu" /\ caller' = "main"
            /\ UNCHANGED cartFile
       [] ch = "d" -> pc' = "delete" /\ caller' = caller /\ UNCHANGED cartFile
       [] ch = "m" -> pc' = "menu" /\ caller' = "main" /\ cartFile' = clear_cart
       [] OTHER -> UNCHANGED <<pc, caller, cartFile>>
  /\ UNCHANGED <<receipts, tracking_id, delete_locals, order_locals>>

\* display_cart(return_choice=True): "Choose B / D / M", and what the caller
\* (place_order or main_menu) does with the answer
display_cart(ch) ==
  /\ pc = "cart"
  /\ CASE ch = "b" ->
            IF read_cart(cartFile) # <<>>
            THEN pc' = "bill" /\ caller' = caller
            ELSE pc' = "menu" /\ caller' = "main"
       [] ch = "d" -> pc' = "delete" /\ caller' = caller
       [] ch = "m" -> pc' = "menu" /\ caller' = "main"
       [] OTHER -> UNCHANGED <<pc, caller>>
  /\ UNCHANGED <<files, tracking_id, delete_locals, order_locals>>

\* delete_from_cart: entry, items = read_cart()
delete_from_cart_begin ==
  /\ pc = "delete"
  /\ IF read_cart(cartFile) = <<>>
     THEN /\ pc' = AfterDelete(caller, cartFile)
          /\ caller' = "main"
          /\ UNCHANGED delete_locals
     ELSE /\ pc' = "del_id"
          /\ items' = read_cart(cartFile)
          /\ UNCHANGED <<caller, found, id_to_del, qty_del>>
  /\ UNCHANGED <<files, tracking_id, order_locals>>

\* delete_from_cart whose search falls back on the last entry of the cart
delete_from_cart_id_last(typed) ==
  /\ pc = "del_id"
  /\ LET n == ParseInt(typed) IN
     IF ~n.ok THEN UNCHANGED <<pc, caller, delete_locals>>
     ELSE IF n.val = 0
     THEN pc' = AfterDelete(caller, cartFile) /\ caller' = "main" /\ NoDeleteLocals
     ELSE /\ pc' = "del_qty"
          /\ id_to_del' = n.val
          /\ found' = IF IndexOf(items, n.val) = 0 THEN Len(items)
                      ELSE IndexOf(items, n.val)
          /\ UNCHANGED <<caller, items, qty_del>>
  /\ UNCHANGED <<files, tracking_id, order_locals>>

\* delete_from_cart: the ID prompt and the search of items
delete_from_cart_id(typed) ==
  /\ pc = "del_id"
  /\ LET n == ParseInt(typed) IN
     IF ~n.ok THEN UNCHANGED <<pc, caller, delete_locals>>
     ELSE IF n.val = 0
     THEN pc' = AfterDelete(caller, cartFile) /\ caller' = "main" /\ NoDeleteLocals
     ELSE IF IndexOf(items, n.val) = 0
     THEN /\ id_to_del' = n.val
          /\ UNCHANGED <<pc, caller, items, found, qty_del>>
     ELSE /\ pc' = "del_qty"
          /\ id_to_del' = n.val
          /\ found' = IndexOf(items, n.val)
          /\ UNCHANGED <<caller, items, qty_del>>
  /\ UNCHANGED <<files, tracking_id, order_locals>>

\* delete_from_cart: the "how many to delete" prompt
delete_from_cart_qty(typed) ==
  /\ pc = "del_qty"
  /\ LET n == ParseInt(typed) IN
     /\ n.ok => items[found].quantity - n.val <= MaxQty
     /\ IF ~n.ok
        THEN pc' = "del_id" /\ found' = 0 /\ UNCHANGED <<items, id_to_del, qty_del>>
        ELSE pc' = "del_apply" /\ qty_del' = n.val
             /\ UNCHANGED <<items, found, id_to_del>>
  /\ UNCHANGED <<caller, files, tracking_id, order_locals>>

\* delete_from_cart: lines 274-287, the deletion and write_cart_from_items
delete_from_cart_apply ==
  /\ pc = "del_apply"
  /\ LET left == delete_quantity(items, found, qty_del) IN
     /\ cartFile' = write_cart_from_items(left)
     /\ IF left = <<>>
        THEN /\ pc' = AfterDelete(caller, cartFile')
             /\ caller' = "main"
             /\ NoDeleteLocals
        ELSE /\ pc' = "del_more"
             /\ items' = left
             /\ found' = 0 /\ qty_del' = 0
             /\ UNCHANGED <<caller, id_to_del>>
  /\ UNCHANGED <<receipts, tracking_id, order_locals>>

\* delete_from_cart: "Delete another item? (y/n)"
delete_from_cart_more(more) ==
  /\ pc = "del_more"
  /\ IF more = "y"
     THEN pc' = "del_id" /\ id_to_del' = 0
          /\ UNCHANGED <<caller, items, found, qty_del>>
     ELSE pc' = AfterDelete(caller, cartFile) /\ caller' = "main" /\ NoDeleteLocals
  /\ UNCHANGED <<files, tracking_id, order_locals>>

\* place_order without the read_cart() test after the deletion sub-flow
place_order_post_nocheck(post) ==
  /\ pc = "post"
  /\ IF post = "b"
     THEN pc' = "bill" /\ caller' = "order"
     ELSE pc' = "menu" /\ caller' = "main"
  /\ UNCHANGED <<files, tracking_id, delete_locals, order_locals>>

\* place_order: "After cart changes: [B]ill now or [M]ain menu?"
place_order_post(post) ==
  /\ pc = "post"
  /\ IF post = "b" /\ read_cart(cartFile) # <<>>
     THEN pc' = "bill" /\ caller' = "order"
     ELSE pc' = "menu" /\ caller' = "main"
  /\ UNCHANGED <<files, tracking_id, delete_locals, order_locals>>

\* main_menu: "Bill now? (y/n)" after delete_from_cart left a non-empty cart
main_menu_billnow(answer) ==
  /\ pc = "billnow"
  /\ IF answer = "y"
     THEN pc' = "bill" /\ caller' = "main"
     ELSE pc' = "menu" /\ caller' = "main"
  /\ UNCHANGED <<files, tracking_id, delete_locals, order_locals>>

\* bill_process without its "if not items: ... return"
bill_process_begin_norefuse ==
  /\ pc = "bill"
  /\ pc' = "bill_info" /\ items' = read_cart(cartFile)
  /\ caller' = "main"
  /\ UNCHANGED <<files, tracking_id, found, id_to_del, qty_del, order_locals>>

\* bill_process: entry, items = read_cart() and the empty-cart refusal
bill_process_begin ==
  /\ pc = "bill"
  /\ IF read_cart(cartFile) = <<>>
     THEN pc' = "menu" /\ UNCHANGED items
     ELSE pc' = "bill_info" /\ items' = read_cart(cartFile)
  /\ caller' = "main"
  /\ UNCHANGED <<files, tracking_id, found, id_to_del, qty_del, order_locals>>

\* bill_process without the call of clear_cart
bill_process_noclear(customer, tid) ==
  /\ pc = "bill_info"
  /\ receipts' = save_bill(receipts, customer, items, cart_total(items), tid)
  /\ tracking_id' = tid
  /\ pc' = "bill_done"
  /\ items' = <<>>
  /\ UNCHANGED <<cartFile, caller, found, id_to_del, qty_del, order_locals>>

\* bill_process: Name / Address / Phone, then total, tracking ID, save_bill,
\* the summary and clear_cart
bill_process(customer, tid) ==
  /\ pc = "bill_info"
  /\ receipts' = save_bill(receipts, customer, items, cart_total(items), tid)
  /\ tracking_id' = tid
  /\ cartFile' = clear_cart
  /\ pc' = "bill_done"
  /\ items' = <<>>
  /\ UNCHANGED <<caller, found, id_to_del, qty_del, order_locals>>

\* bill_process: "Press Enter to return to menu..."
bill_process_done ==
  /\ pc = "bill_done"
  /\ pc' = "menu"
  /\ tracking_id' = 0
  /\ UNCHANGED <<caller, files, delete_locals, order_locals>>

Prompts ==
  {"menu", "search", "approx", "id", "qty", "next", "cart", "del_id", "del_qty",
   "del_more", "post", "billnow", "bill_info", "bill_done"}

\* Ctrl-C at a prompt: the handler under __main__ prints and the process ends
KeyboardInterrupt ==
  /\ pc \in Prompts
  /\ pc' = "exit"
  /\ caller' = "main"
  /\ NoDeleteLocals
  /\ NoOrderLocals
  /\ tracking_id' = 0
  /\ UNCHANGED files

\* the functions called directly, as a library, while no menu is being served
api_append_to_cart(med, q) ==
  /\ pc = "menu"
  /\ QuantityOf(read_cart(cartFile), med.id) + q <= MaxQty
  /\ pc' = "append" /\ caller' = "api"
  /\ chosen' = <<med>> /\ qty' = q
  /\ UNCHANGED <<files, tracking_id, delete_locals, results, approx>>

api_bill_process ==
  /\ pc = "menu"
  /\ pc' = "bill" /\ caller' = "api"
  /\ UNCHANGED <<files, tracking_id, delete_locals, order_locals>>

\* ---------------------------------------------------------- specifications
Next ==
  \/ \E choice \in MenuChoices : main_menu(choice)
  \/ \E typed \in TypedDiseases : place_order_search(typed)
  \/ place_order_approx
  \/ \E typed \in TypedIds : place_order_id(typed)
  \/ \E typed \in TypedQuantities : place_order_qty(typed)
  \/ append_to_cart_call
  \/ \E next_choice \in {"b", "c", "m", "x"} : place_order_next(next_choice)
  \/ \E ch \in {"b", "d", "m", "x"} : display_cart(ch)
  \/ delete_from_cart_begin
  \/ \E typed \in TypedIds : delete_from_cart_id(typed)
  \/ \E typed \in TypedAmounts : delete_from_cart_qty(typed)
  \/ delete_from_cart_apply
  \/ \E more \in {"y", "n"} : delete_from_cart_more(more)
  \/ \E post \in {"b", "m"} : place_order_post(post)
  \/ \E answer \in {"y", "n"} : main_menu_billnow(answer)
  \/ bill_process_begin
  \/ \E customer \in Customers, tid \in TrackingIds :
       bill_process(customer, tid)
  \/ bill_process_done
  \/ KeyboardInterrupt

\* the program as main_menu runs it
Spec == Init /\ [][Next]_vars

NextApi ==
  \/ Next
  \/ \E med \in {load_store[i] : i \in 1..Len(load_store)},
        q \in (0 - 1)..MaxQty : api_append_to_cart(med, q)
  \/ api_bill_process

\* the program, and its functions called directly in any order
SpecApi == Init /\ [][NextApi]_vars

\* rows 101, 102 and 103 of the sample ensure_folders_and_files writes
sample ==
  << StoreFile[1],
     [id |-> IntCell(102), name |-> "Dolo", intensity |-> "650mg",
      disease |-> Fever, cost |-> DecCell(3000)],
     StoreFile[2] >>

\* the IDs typed at delete_from_cart's prompt when the cart holds these rows
SampleTypedIds ==
  {IntCell(0), IntCell(101), IntCell(102), IntCell(103), IntCell(999), TextCell}

api_delete_from_cart ==
  /\ pc = "menu"
  /\ pc' = "delete" /\ caller' = "api"
  /\ UNCHANGED <<files, tracking_id, delete_locals, order_locals>>

NextCart ==
  \/ \E med \in {load_rows(sample)[i] : i \in 1..Len(sample)},
        q \in 1..MaxQty : api_append_to_cart(med, q)
  \/ append_to_cart_call
  \/ api_delete_from_cart
  \/ delete_from_cart_begin
  \/ \E typed \in SampleTypedIds : delete_from_cart_id(typed)
  \/ \E typed \in TypedAmounts : delete_from_cart_qty(typed)
  \/ delete_from_cart_apply
  \/ \E more \in {"y", "n"} : delete_from_cart_more(more)

\* append_to_cart and delete_from_cart called directly, on three products
SpecCart == Init /\ [][NextCart]_vars

\* ---------------------------------------------------------- any cart file
\* the cart files read_cart is given here have at most this many rows
MaxRows == 2

\* cells a cart.csv can hold in its id, quantity and cost columns: numbers,
\* other text, or nothing
CartIdCells == {IntCell(101), IntCell(103), TextCell, EmptyCell}
CartQuantityCells == {IntCell(n) : n \in 0..MaxQty} \cup {TextCell, EmptyCell}
CartCostCells == {DecCell(2000), TextCell}

CartRows ==
  [id : CartIdCells, name : {"Paracetamol"}, intensity : {"500mg"},
   disease : {Fever}, cost : CartCostCells, quantity : CartQuantityCells]

\* every cart.csv of at most MaxRows such rows under the cart header
CartFiles ==
  {[header |-> CartHeader, rows |-> rows] :
     rows \in UNION {[1..n -> CartRows] : n \in 0..MaxRows}}

\* a cart file of any content is in place and read_cart is about to run
InitRoundTrip ==
  /\ pc = "read_cart"
  /\ caller = "api"
  /\ cartFile \in CartFiles
  /\ receipts = <<>>
  /\ tracking_id = 0
  /\ items = <<>>
  /\ found = 0
  /\ id_to_del = 0
  /\ qty_del = 0
  /\ results = <<>>
  /\ approx = <<>>
  /\ chosen = <<>>
  /\ qty = 0

\* items = read_cart()
read_cart_call ==
  /\ pc = "read_cart"
  /\ items' = read_cart(cartFile)
  /\ pc' = "write_cart"
  /\ UNCHANGED <<caller, files, tracking_id, found, id_to_del, qty_del, order_locals>>

\* write_cart_from_items(items)
write_cart_from_items_call ==
  /\ pc = "write_cart"
  /\ cartFile' = write_cart_from_items(items)
  /\ pc' = "written"
  /\ UNCHANGED <<caller, receipts, tracking_id, delete_locals, order_locals>>

NextRoundTrip ==
  \/ read_cart_call
  \/ write_cart_from_items_call

\* read_cart followed by write_cart_from_items, on any cart file
SpecRoundTrip == InitRoundTrip /\ [][NextRoundTrip]_vars

\* ------------------------------------------------- a user who makes progress
\* delete_from_cart with a user who, at every prompt, names an ID the cart
\* holds or 0, a positive amount, and answers y or n
NextProgress ==
  \/ \E med \in {load_rows(sample)[i] : i \in 1..Len(sample)},
        q \in 1..MaxQty : api_append_to_cart(med, q)
  \/ append_to_cart_call
  \/ api_delete_from_cart
  \/ delete_from_cart_begin
  \/ \E typed \in {IntCell(0)} \cup {IntCell(items[k].id) : k \in 1..Len(items)} :
       delete_from_cart_id(typed)
  \/ \E typed \in {IntCell(n) : n \in 1..(MaxQty + 1)} : delete_from_cart_qty(typed)
  \/ delete_from_cart_apply
  \/ \E more \in {"y", "n"} : delete_from_cart_more(more)

\* input() returns whenever the user answers, and every other step is
\* straight-line code: the program does not stop while a step is possible
SpecProgress == Init /\ [][NextProgress]_vars /\ WF_vars(NextProgress)

\* ------------------------------------------------------------------ claims
\* the persisted cart, as read_cart() loads it
Cart == read_cart(cartFile)

\* C1: after any sequence of append_to_cart, delete_from_cart and
\* bill_process, from the header-only cart, the persisted cart holds at most
\* one entry per product ID.
C1_OneEntryPerId ==
  \A i, j \in 1..Len(Cart) : Cart[i].id = Cart[j].id => i = j

\* a second addition of a product has just been merged into its entry
C1_Witness ==
  /\ pc = "next" /\ chosen # <<>>
  /\ QuantityOf(Cart, chosen[1].id) > qty

\* C2: append_to_cart(med, q1) with q1 >= 1 on a cart without med.id appends
\* one entry with quantity q1 and leaves the others as they were, and a second
\* append_to_cart(med, q2) then leaves exactly one entry of that ID, with
\* quantity q1 + q2; on a cart that has the ID, the entry's quantity grows by
\* the quantity added and nothing else changes.
C2_AddOrMerge ==
  [][(pc = "append" /\ qty >= 1) =>
       LET before == read_cart(cartFile)
           after == read_cart(cartFile')
           med == chosen[1]
           i == IndexOf(before, med.id)
       IN IF i = 0
          THEN /\ Len(after) = Len(before) + 1
               /\ \A k \in 1..Len(before) : after[k] = before[k]
               /\ after[Len(after)].id = med.id
               /\ after[Len(after)].quantity = qty
               /\ \A q2 \in 1..MaxQty :
                    LET twice == read_cart(append_to_cart(cartFile', med, q2)) IN
                    /\ Cardinality({k \in 1..Len(twice) : twice[k].id = med.id}) = 1
                    /\ Len(twice) = Len(after)
                    /\ twice[Len(twice)].quantity = qty + q2
                    /\ \A k \in 1..Len(before) : twice[k] = before[k]
          ELSE /\ Len(after) = Len(before)
               /\ after[i].quantity = before[i].quantity + qty
               /\ \A k \in 1..Len(before) :
                    k # i => after[k] = before[k]
  ]_vars

\* a new product has just been appended behind another entry
C2_Witness ==
  /\ pc = "next" /\ chosen # <<>>
  /\ Len(Cart) >= 2
  /\ Cart[Len(Cart)].id = chosen[1].id
  /\ Cart[Len(Cart)].quantity = qty

\* C3: every entry of the persisted cart has quantity >= 1, whatever integer
\* amounts are typed in the add and delete flows.
C3_QuantityAtLeastOne ==
  \A i \in 1..Len(Cart) : Cart[i].quantity >= 1

\* a deletion has just removed the entry named, and other entries remain
C3_Witness ==
  /\ pc = "del_more" /\ id_to_del # 0
  /\ IndexOf(Cart, id_to_del) = 0

\* C4: in the deletion flow an amount <= 0 leaves the cart unchanged, and no
\* deletion step increases the quantity of a cart entry.
C4_DeleteNeverIncreases ==
  [][pc = "del_apply" =>
       /\ (qty_del <= 0 => cartFile' = cartFile)
       /\ \A i \in 1..Len(Cart) :
            QuantityOf(read_cart(cartFile'), Cart[i].id) <= Cart[i].quantity
  ]_vars

\* C5: deleting amount from an existing entry removes the entry when
\* amount >= its quantity and otherwise leaves it with quantity - amount; the
\* other entries are unchanged in both cases.
C5_DeletionBoundary ==
  [][pc = "del_apply" =>
       LET before == read_cart(cartFile)
           after == read_cart(cartFile')
           i == IndexOf(before, id_to_del)
       IN /\ i # 0
          /\ IF qty_del >= before[i].quantity
             THEN /\ Len(after) = Len(before) - 1
                  /\ IndexOf(after, id_to_del) = 0
                  /\ \A k \in 1..Len(after) :
                       after[k] = IF k < i THEN before[k] ELSE before[k + 1]
             ELSE /\ Len(after) = Len(before)
                  /\ after[i] = [before[i] EXCEPT !.quantity = @ - qty_del]
                  /\ \A k \in 1..Len(before) : k # i => after[k] = before[k]
  ]_vars

\* a deletion of less than the entry holds is being applied, next to another entry
C5_Witness ==
  /\ pc = "del_apply" /\ Len(Cart) >= 2
  /\ qty_del >= 1 /\ qty_del < Cart[IndexOf(Cart, id_to_del)].quantity

\* C6: a deletion request for a product ID that is not in the cart leaves the
\* in-memory cart and the persisted cart unchanged, and the ID prompt returns.
C6_DeleteNotFound ==
  [][(pc = "del_id" /\ id_to_del' # 0 /\ IndexOf(Cart, id_to_del') = 0) =>
       /\ cartFile' = cartFile
       /\ items' = items
       /\ found' = 0
       /\ pc' = "del_id"
  ]_vars

\* an ID that is not in the cart has just been asked for at the ID prompt
C6_Witness ==
  /\ pc = "del_id" /\ id_to_del # 0
  /\ Cart # <<>>
  /\ IndexOf(Cart, id_to_del) = 0

\* C7: append_to_cart with quantity <= 0 leaves the cart file as it is, and
\* place_order calls append_to_cart from the quantity prompt only with a
\* quantity >= 1: otherwise it goes back to the search prompt, cart unchanged.
C7_NonPositiveNoOp ==
  [][/\ (pc = "append" /\ qty <= 0) => cartFile' = cartFile
     /\ pc = "qty" =>
          /\ cartFile' = cartFile
          /\ pc' = "append" => qty' >= 1
          /\ pc' # "append" => pc' \in {"search", "exit"}
  ]_vars

\* append_to_cart has been called with a quantity <= 0 on a non-empty cart
C7_Witness ==
  /\ pc = "append" /\ qty <= 0
  /\ Cart # <<>>

\* C8: bill_process on an empty cart returns at once: no receipt is written,
\* the cart file is unchanged and no tracking ID is issued; so no receipt
\* without an item line ever exists.
C8_EmptyCartRefused ==
  [][/\ (pc = "bill" /\ Cart = <<>>) =>
          /\ UNCHANGED <<cartFile, receipts, tracking_id>>
          /\ pc' = "menu"
     /\ \A t \in DOMAIN receipts' : Len(receipts'[t].lines) >= 1
  ]_vars

\* bill_process has been called on an empty cart, after an earlier checkout
C8_Witness ==
  /\ pc = "bill" /\ Cart = <<>>
  /\ DOMAIN receipts # {}

\* C9: bill_process either saves one receipt under the tracking ID it generates and
\* leaves the cart file header-only, or writes nothing at all: its entry step
\* writes nothing and goes on only with a non-empty cart, its checkout step
\* writes exactly one receipt (the items read at entry) and clears the cart,
\* and after it nothing more is written.
C9_CheckoutClearsCart ==
  [][/\ pc = "bill" =>
          /\ UNCHANGED <<cartFile, receipts, tracking_id>>
          /\ IF Cart = <<>> THEN pc' = "menu"
             ELSE pc' = "bill_info" /\ items' = Cart
     /\ (pc = "bill_info" /\ pc' = "bill_done") =>
          /\ cartFile' = [header |-> CartHeader, rows |-> <<>>]
          /\ read_cart(cartFile') = <<>>
          /\ \E t \in TrackingIds :
               /\ tracking_id' = t
               /\ t \in DOMAIN receipts'
               /\ Len(receipts'[t].lines) = Len(Cart)
               /\ \A k \in 1..Len(Cart) :
                    /\ receipts'[t].lines[k].name = Cart[k].name
                    /\ receipts'[t].lines[k].quantity = Cart[k].quantity
               /\ DOMAIN receipts' = DOMAIN receipts \cup {t}
               /\ \A u \in DOMAIN receipts : u # t => receipts'[u] = receipts[u]
     /\ (pc = "bill_info" /\ pc' # "bill_done") =>
          UNCHANGED <<cartFile, receipts, tracking_id>>
     /\ pc = "bill_done" =>
          /\ UNCHANGED <<cartFile, receipts>>
          /\ Cart = <<>>
          /\ tracking_id \in DOMAIN receipts
  ]_vars

\* a checkout has just completed
C9_Witness ==
  /\ pc = "bill_done"
  /\ Cart = <<>>
  /\ DOMAIN receipts # {}

\* C10: main_menu and place_order call bill_process only while the persisted
\* cart has at least one entry.
C10_NeverBillEmptyCart ==
  pc = "bill" => Cart # <<>>

\* bill_process has been called from place_order
C10_Witness ==
  /\ pc = "bill" /\ caller = "order"
  /\ Cart # <<>>

\* ---------------------------------------------------------------- receipts
\* C11: a receipt is created once per checkout and never mutated: every
\* successful checkout adds exactly one new file to the output folder, and no
\* step (add, delete, or a later checkout, whatever tracking ID
\* generate_tracking_id returns) removes or changes a receipt saved earlier.
C11_ReceiptsImmutable ==
  [][ /\ \A t \in DOMAIN receipts :
           t \in DOMAIN receipts' /\ receipts'[t] = receipts[t]
      /\ (pc = "bill_info" /\ pc' = "bill_done") =>
           /\ tracking_id' \notin DOMAIN receipts
           /\ DOMAIN receipts' = DOMAIN receipts \cup {tracking_id'}
  ]_vars

\* C12: for every non-empty cart, with costs as whole hundredths, the grand
\* total on the receipt is the sum over the cart rows of unit cost times
\* quantity, and the itemized lines are exactly the rows of the cart file as
\* it stood when bill_process was entered: same products, same quantities,
\* same order.
RECURSIVE SumOfRows(_)
SumOfRows(rows) ==
  IF rows = <<>> THEN 0
  ELSE Head(rows).cost.val * Head(rows).quantity.val + SumOfRows(Tail(rows))

C12_ReceiptTotalAndLines ==
  [][ /\ (pc = "bill" /\ pc' = "bill_info") =>
           cartFile' = cartFile /\ items' = Cart
      /\ (pc = "bill_info" /\ pc' = "bill_done") =>
           LET r == receipts'[tracking_id']
               rows == cartFile.rows
           IN /\ items = Cart
              /\ rows # <<>>
              /\ r.total = SumOfRows(rows)
              /\ Len(r.lines) = Len(rows)
              /\ \A k \in 1..Len(rows) :
                   /\ r.lines[k].name = rows[k].name
                   /\ r.lines[k].quantity = rows[k].quantity.val
                   /\ r.lines[k].rate = rows[k].cost.val
                   /\ r.lines[k].subtotal = rows[k].cost.val * rows[k].quantity.val
  ]_vars

\* the receipt of the cart [Paracetamol 20.00 x 2, Azithromycin 85.00 x 1]
\* has just been saved with the total 125.00
C12_Witness ==
  /\ pc = "bill_done"
  /\ Len(receipts[tracking_id].lines) = 2
  /\ receipts[tracking_id].lines[1].quantity = 2
  /\ receipts[tracking_id].total = 12500

\* C13: the cart is cleared once per successful checkout and at no other
\* time. The step that saves a receipt is the step that calls clear_cart, on
\* the cart exactly as the receipt lists it; every other step that leaves the
\* cart without entries is delete_from_cart removing the one entry that was
\* left (write_cart_from_items, not clear_cart); and no step removes two or
\* more entries at once except the checkout.
C13_ClearedOnlyByCheckout ==
  [][ LET checkout == pc = "bill_info" /\ pc' = "bill_done"
          after == read_cart(cartFile')
      IN /\ checkout =>
              /\ cartFile' = clear_cart
              /\ tracking_id' \in DOMAIN receipts'
              /\ Len(receipts'[tracking_id'].lines) = Len(Cart)
              /\ \A k \in 1..Len(Cart) :
                   /\ receipts'[tracking_id'].lines[k].name = Cart[k].name
                   /\ receipts'[tracking_id'].lines[k].quantity = Cart[k].quantity
         /\ (~checkout /\ Cart # <<>> /\ after = <<>>) =>
              /\ pc = "del_apply"
              /\ Len(Cart) = 1
              /\ Cart[1].id = id_to_del
              /\ qty_del >= Cart[1].quantity
              /\ receipts' = receipts
         /\ (~checkout /\ cartFile' # cartFile) => receipts' = receipts
         /\ ~checkout => Len(after) >= Len(Cart) - 1
  ]_vars

\* clear_cart has just emptied a cart of two entries, both on the receipt
C13_Witness ==
  /\ pc = "bill_done"
  /\ cartFile = clear_cart
  /\ Len(receipts[tracking_id].lines) >= 2

\* C14: the cart keeps insertion order. Across every step (add, merge,
\* deletion, checkout) the entries that remain keep their relative order, a
\* merge leaves the merged entry at its index, and an ID new to the cart is
\* placed last.
C14_InsertionOrder ==
  [][ LET after == read_cart(cartFile')
      IN /\ \A i, j \in 1..Len(after) :
              (/\ i < j
               /\ IndexOf(Cart, after[i].id) # 0
               /\ IndexOf(Cart, after[j].id) # 0)
              => IndexOf(Cart, after[i].id) < IndexOf(Cart, after[j].id)
         /\ \A k \in 1..Len(after) :
              IndexOf(Cart, after[k].id) = 0 =>
                /\ k = Len(after)
                /\ Len(after) = Len(Cart) + 1
         /\ Len(after) >= Len(Cart) =>
              \A k \in 1..Len(Cart) : after[k].id = Cart[k].id
  ]_vars

\* delete_from_cart has just removed the whole entry 102 from a cart of three
\* and written the other two, 101 before 103
C14_Witness ==
  /\ pc = "del_more"
  /\ id_to_del = 102
  /\ Len(Cart) = 2
  /\ Cart[1].id = 101 /\ Cart[2].id = 103

\* C15: approximate matches are produced only when the exact search found
\* nothing, and are never added to the cart: after printing them place_order
\* goes back to the disease prompt with the cart and the receipts unchanged
\* and no medicine chosen, and neither the ID prompt nor the quantity prompt
\* is reached with approximate matches.
C15_ApproxNeverAdded ==
  [][ /\ (pc = "search" /\ pc' = "approx") =>
           /\ results' = <<>>
           /\ \E typed \in TypedDiseases :
                /\ find_by_disease(Strip(typed)) = <<>>
                /\ approx' = approx_matches(Strip(typed))
      /\ approx' # <<>> => (pc = "search" /\ pc' = "approx")
      /\ (pc = "search" /\ pc' = "id") => (results' # <<>> /\ approx' = <<>>)
      /\ pc = "approx" =>
           /\ pc' \in {"search", "exit"}
           /\ UNCHANGED <<cartFile, receipts>>
           /\ chosen' = <<>> /\ results' = <<>> /\ qty' = 0
      /\ pc' \in {"id", "qty", "append"} => approx' = <<>>
  ]_vars

\* "fev" matched no disease exactly and Paracetamol (Fever) was printed as an
\* approximate match, with a product already in the cart
C15_Witness ==
  /\ pc = "approx"
  /\ approx # <<>>
  /\ results = <<>>
  /\ Cart # <<>>

\* a cart file as write_cart_from_items writes it: integer IDs and
\* quantities, costs with two decimals
WrittenByProgram(file) ==
  /\ file.header = CartHeader
  /\ \A k \in 1..Len(file.rows) :
       /\ file.rows[k].id.kind = "int"
       /\ file.rows[k].quantity.kind = "int"
       /\ file.rows[k].cost.kind = "dec"

\* C16: round trip. For every cart file read_cart can read, writing what was
\* read with write_cart_from_items gives a file that reads back as the same
\* records: same IDs, same quantities, same order (and the same names and
\* costs); a file the program wrote itself is reproduced cell by cell.
C16_RoundTrip ==
  [][ pc = "write_cart" =>
        LET before == read_cart(cartFile)
            after == read_cart(cartFile')
        IN /\ items = before
           /\ Len(after) = Len(before)
           /\ \A k \in 1..Len(before) :
                /\ after[k].id = before[k].id
                /\ after[k].quantity = before[k].quantity
                /\ after[k].name = before[k].name
                /\ after[k].cost = before[k].cost
           /\ WrittenByProgram(cartFile) => cartFile' = cartFile
  ]_vars

\* a file of two rows with quantities 2 and 1 has been read and written back
C16_Witness ==
  /\ pc = "written"
  /\ Len(items) = 2
  /\ items[1].quantity = 2 /\ items[2].quantity = 1
  /\ Len(read_cart(cartFile)) = 2

\* C17: place_order's "Choose B / C / M" menu is entered only directly after
\* the quantity prompt accepted a quantity and append_to_cart added the chosen
\* product: at that menu a product is chosen and the cart holds at least the
\* accepted quantity of it; the menu is never reached from the ID prompt.
C17_MenuOnlyAfterAdd ==
  [][ /\ (pc # "next" /\ pc' = "next") =>
           /\ pc = "append"
           /\ chosen' # <<>>
           /\ qty' >= 1
           /\ QuantityOf(read_cart(cartFile'), chosen'[1].id) >= qty'
      /\ pc = "id" => pc' # "next"
  ]_vars

\* C18: leaving the order workflow without checkout has no side effects.
\* Every answer at place_order's prompts that returns to the main menu or to
\* the disease prompt ("back" at the search, 0 at the ID prompt, M at the
\* B / C / M menu, M after viewing the cart, anything but B after the deletion
\* sub-flow, and B itself when the cart is empty) leaves cart.csv and the
\* receipts exactly as they were when the answer was given.
C18_ReturnsWithoutSideEffects ==
  [][ (/\ pc \in {"search", "approx", "id", "qty", "next", "cart", "post"}
       /\ pc' \in {"menu", "search"})
      => UNCHANGED <<cartFile, receipts>>
  ]_vars

\* place_order is asking "[B]ill now or [M]ain menu?" after a deletion, with
\* entries left in the cart and a receipt saved earlier
C18_Witness ==
  /\ pc = "post"
  /\ Cart # <<>>
  /\ DOMAIN receipts # {}

\* C19: every product in the cart is a catalog product. Every cart row has
\* the ID, the name and the cost of a row of store.csv; the medicine chosen
\* at the ID prompt is the first result with the typed ID or, when no result
\* has it, the store product with that ID, so an ID outside the exact results
\* is added when the store has it and no other ID is ever added.
InCatalog(row) ==
  \E i \in 1..Len(StoreFile) :
    /\ row.id = StoreFile[i].id
    /\ row.name = StoreFile[i].name
    /\ row.cost = StoreFile[i].cost

C19_CartInCatalog ==
  /\ \A k \in 1..Len(cartFile.rows) : InCatalog(cartFile.rows[k])
  /\ chosen # <<>> =>
       /\ \E i \in 1..Len(load_store) : chosen[1] = load_store[i]
       /\ pc = "qty" =>
            IF IndexOf(results, chosen[1].id) # 0
            THEN chosen[1] = results[IndexOf(results, chosen[1].id)]
            ELSE chosen[1] = load_store[IndexOf(load_store, chosen[1].id)]

\* Azithromycin (103) was typed after a search for fever: it is not among the
\* results, was found in the store, and place_order asks for its quantity
C19_Witness ==
  /\ pc = "qty"
  /\ results # <<>>
  /\ IndexOf(results, chosen[1].id) = 0
  /\ chosen[1].id = 103

\* total quantity of the cart
RECURSIVE TotalQuantity(_)
TotalQuantity(its) ==
  IF its = <<>> THEN 0 ELSE Head(its).quantity + TotalQuantity(Tail(its))

DeletePrompts == {"delete", "del_id", "del_qty", "del_apply", "del_more"}

\* C20: the deletion sub-flow terminates under progress. With a user who
\* names an ID the cart holds and a positive amount, every deletion strictly
\* lowers the total quantity of the cart; delete_from_cart asks again only
\* while entries are left; it returns at once on ID 0, on an answer other
\* than y, and when the cart has become empty; and every call returns. A
\* user who never types 0 and always answers y therefore leaves
\* delete_from_cart with the cart empty.
C20_DeleteTerminates ==
  /\ [][ /\ pc = "del_apply" =>
              /\ TotalQuantity(read_cart(cartFile')) < TotalQuantity(Cart)
              /\ (read_cart(cartFile') = <<>>) = (pc' \notin DeletePrompts)
         /\ (pc = "del_id" /\ pc' # "del_qty") => pc' \notin DeletePrompts
         /\ (pc = "del_more" /\ pc' # "del_id") => pc' \notin DeletePrompts
         /\ pc \in DeletePrompts \ {"delete"} => Cart # <<>>
     ]_vars
  /\ (pc = "delete") ~> (pc \notin DeletePrompts)

\* one iteration has removed a whole entry, another entry is left, and
\* delete_from_cart asks "Delete another item?"
C20_Witness ==
  /\ pc = "del_more"
  /\ Cart # <<>>
  /\ IndexOf(Cart, id_to_del) = 0
  /\ TotalQuantity(Cart) >= 2

====
